---------------------------- MODULE Spec2Model ----------------------------
(***************************************************************************)
(* A model of freud's PMFT base class (cpp/pmft/PMFT.h) and of the         *)
(* Steinhardt order-parameter class interface (cpp/order/Steinhardt.h).    *)
(*                                                                         *)
(* A C++ float is modelled as a pair <<n, d>>: a reduced fraction n/d with *)
(* d > 0, or one of the IEEE special values with d = 0 (NaN = <<0,0>>,     *)
(* +inf = <<1,0>>, -inf = <<-1,0>>).  The arithmetic follows IEEE-754 for  *)
(* the special values (x/0, 0/0, 0*inf, NaN propagation, comparisons with  *)
(* NaN are false); rounding of finite results is not modelled.             *)
(***************************************************************************)
EXTENDS Integers, Sequences, FiniteSets, TLC

(***************************************************************************)
(* Bounds of the model.                                                    *)
(***************************************************************************)
MaxWorkers == 2
MaxFrames == 2
MaxBonds == 2
MaxL == 3
MaxCalls == 3
CountCap == 2

(***************************************************************************)
(* The grid of the concrete PMFT variant: reducePCF() of a subclass calls  *)
(* reduce3D(n_r, first_dim, second_dim, jf) with its own grid.             *)
(***************************************************************************)
N_R == 1
FIRST_DIM == 2
SECOND_DIM == 1

VARIABLES
    \* ---- PMFT members (PMFT.h:185-194)
    m_box,                \* volume of the box (float)
    m_frame_counter,
    m_n_points,
    m_n_query_points,
    m_reduce,
    m_r_max,
    m_pcf_array,          \* sequence of floats
    m_bin_counts,         \* sequence of unsigned ints
    m_local_bin_counts,   \* worker -> sequence of unsigned ints
    nthreads,             \* number of worker threads of the TBB pool
    ret,                  \* what the last accessor call handed to the caller
    \* ---- history of the calls made on the PMFT instance
    lastOp,               \* the last public call
    accumulated,          \* an accumulate call has completed on the instance
    afterReset,           \* reset() was called and no accumulate since
    serial,               \* bonds mapped to each bin since the last reset
    readsSinceAcc,        \* accessor calls since the last accumulate (capped)
    reducesSinceAcc,      \* reduce() calls since the last accumulate (capped)
    readsSinceDirty,      \* accessor calls since the last accumulate or reset
    reducesSinceDirty,    \* reduce() calls since the last accumulate or reset
    accsSinceReset,       \* accumulate calls completed since the last reset
    lastQuery,            \* the frame of the last completed accumulate call
    mixedFrames,          \* the frames since the last reset were not all alike
    \* ---- Steinhardt
    steinhardt,           \* the members of the instance (Steinhardt.h:180-198)
    st_args,              \* the arguments of the last constructor call
    st_err,               \* the exception the last call threw, or "none"
    st_ret,               \* what the last getter handed to the caller
    st_lastOp,
    \* ---- the parallel phase a PMFT call is in, worker by worker
    par,
    \* ---- a second PMFT instance of the same process
    current,              \* the instance the members above belong to: "A" or "B"
    other,                \* the members and the history of the other instance
    calls                 \* calls made on the two instances together

pmftVars == <<m_box, m_frame_counter, m_n_points, m_n_query_points, m_reduce,
              m_r_max, m_pcf_array, m_bin_counts, m_local_bin_counts, nthreads,
              ret, lastOp, accumulated, afterReset, serial, readsSinceAcc,
              reducesSinceAcc, readsSinceDirty, reducesSinceDirty,
              accsSinceReset, lastQuery, mixedFrames>>

stVars == <<steinhardt, st_args, st_err, st_ret, st_lastOp>>

twoVars == <<current, other, calls>>

extVars == <<par, twoVars>>

vars == <<pmftVars, stVars, extVars>>

(***************************************************************************)
(* Floats.                                                                 *)
(***************************************************************************)
NaN == <<0, 0>>
PInf == <<1, 0>>
NInf == <<-1, 0>>

Abs(n) == IF n < 0 THEN -n ELSE n

Sgn(n) == IF n < 0 THEN -1 ELSE IF n = 0 THEN 0 ELSE 1

RECURSIVE GCD(_, _)
GCD(a, b) == IF b = 0 THEN a ELSE GCD(b, a % b)

\* the fraction n/d, d # 0, in lowest terms with a positive denominator
Frac(n, d) ==
    LET g == GCD(Abs(n), Abs(d))
    IN  <<(Sgn(d) * n) \div g, Abs(d) \div g>>

\* (float) n for an unsigned int n
ToFloat(n) == <<n, 1>>

IsNaN(x) == x = NaN

IsInf(x) == x[2] = 0 /\ x[1] # 0

FMul(a, b) ==
    IF IsNaN(a) \/ IsNaN(b) THEN NaN
    ELSE IF IsInf(a) \/ IsInf(b)
         THEN IF a[1] = 0 \/ b[1] = 0 THEN NaN
              ELSE <<Sgn(a[1]) * Sgn(b[1]), 0>>
         ELSE Frac(a[1] * b[1], a[2] * b[2])

FDiv(a, b) ==
    IF IsNaN(a) \/ IsNaN(b) THEN NaN
    ELSE IF IsInf(a)
         THEN IF IsInf(b) THEN NaN
              ELSE <<Sgn(a[1]) * (IF b[1] < 0 THEN -1 ELSE 1), 0>>
         ELSE IF IsInf(b) THEN <<0, 1>>
         ELSE IF b[1] = 0
              THEN IF a[1] = 0 THEN NaN ELSE <<Sgn(a[1]), 0>>
              ELSE Frac(a[1] * b[2], a[2] * b[1])

\* a < b and a >= b of C++: both are false when an operand is NaN
FLt(a, b) ==
    /\ ~IsNaN(a)
    /\ ~IsNaN(b)
    /\ IF IsInf(a) \/ IsInf(b)
       THEN a # b /\ (a = NInf \/ b = PInf)
       ELSE a[1] * b[2] < b[1] * a[2]

FGe(a, b) == ~IsNaN(a) /\ ~IsNaN(b) /\ ~FLt(a, b)

(***************************************************************************)
(* PMFT                                                                    *)
(***************************************************************************)
NBins == N_R * FIRST_DIM * SECOND_DIM

Bins == 1..NBins

Workers == 1..nthreads

Accessors == {"getPCF", "getBinCounts"}

Inc(c) == IF c < CountCap THEN c + 1 ELSE c

\* the frames handed to accumulate: the box volume and the number of points of
\* the NeighborQuery, and the number of query points
NeighborQueries ==
    {[box |-> <<1, 1>>, n_points |-> 1, n_query_points |-> 1],
     [box |-> <<8, 1>>, n_points |-> 2, n_query_points |-> 1],
     [box |-> <<8, 1>>, n_points |-> 1, n_query_points |-> 2],
     [box |-> <<1, 1>>, n_points |-> 0, n_query_points |-> 2],
     [box |-> <<8, 1>>, n_points |-> 2, n_query_points |-> 0]}

\* util::ManagedArray default constructor: an empty array
EmptyArray == <<>>

\* ManagedArray::prepare(shape): the array has the shape and is all zeros
prepare(n) == [i \in 1..n |-> 0]

\* ThreadStorage::reset(): every thread-local array is zeroed
ThreadStorageReset == [w \in Workers |-> [i \in Bins |-> 0]]

\* the Jacobian factor jf(i) the concrete variant passes to reduce3D
jf(i) == <<1, i>>

RECURSIVE SumOver(_, _)
SumOver(f, S) ==
    IF S = {} THEN 0
    ELSE LET x == CHOOSE y \in S : TRUE IN f[x] + SumOver(f, S \ {x})

\* a fold that reads the first thread-local array only
FoldLocalBins_firstOnly(prepared, size) ==
    [i \in 1..size |-> prepared[i] + m_local_bin_counts[1][i]]

\* first parallel_for of reduce3D: m_bin_counts[i] += (*local_bins)[i] for
\* every thread-local array, on the prepared array
FoldLocalBins(prepared, size) ==
    [i \in 1..size |->
        prepared[i] + SumOver([w \in Workers |-> m_local_bin_counts[w][i]], Workers)]

\* a normalisation that leaves the number of frames out
NormalizePCF_noFrames(bin_counts, size) ==
    LET inv_num_dens == FDiv(m_box, ToFloat(m_n_query_points))
        norm_factor == FDiv(<<1, 1>>, ToFloat(m_n_points))
    IN  [i \in 1..size |->
            FMul(FMul(FMul(ToFloat(bin_counts[i]), norm_factor), jf(i)),
                 inv_num_dens)]

\* second parallel_for of reduce3D
NormalizePCF(bin_counts, size) ==
    LET inv_num_dens == FDiv(m_box, ToFloat(m_n_query_points))
        norm_factor == FDiv(<<1, 1>>,
                            FMul(ToFloat(m_frame_counter), ToFloat(m_n_points)))
    IN  [i \in 1..size |->
            FMul(FMul(FMul(ToFloat(bin_counts[i]), norm_factor), jf(i)),
                 inv_num_dens)]

\* a reduction that folds onto the counts already in the array: only the first
\* reduction finds the array zeroed
reduce3D_noZeroing(n_r, first_dim, second_dim) ==
    LET local_bin_counts_size == n_r * first_dim * second_dim
        onto == IF m_bin_counts = EmptyArray
                THEN prepare(local_bin_counts_size) ELSE m_bin_counts
        folded == FoldLocalBins(onto, local_bin_counts_size)
    IN  /\ m_bin_counts' = folded
        /\ m_pcf_array' = NormalizePCF(folded, local_bin_counts_size)

reduce3D(n_r, first_dim, second_dim) ==
    LET local_bin_counts_size == n_r * first_dim * second_dim
        folded == FoldLocalBins(prepare(local_bin_counts_size), local_bin_counts_size)
    IN  /\ m_bin_counts' = folded
        /\ m_pcf_array' = NormalizePCF(folded, local_bin_counts_size)

reducePCF == reduce3D(N_R, FIRST_DIM, SECOND_DIM)

reduce ==
    /\ reducePCF
    /\ reducesSinceAcc' = Inc(reducesSinceAcc)
    /\ reducesSinceDirty' = Inc(reducesSinceDirty)

\* an accessor that leaves the flag as it found it
reduceAndReturn_keepFlag(thing_to_return) ==
    /\ IF m_reduce = TRUE
       THEN reduce
       ELSE UNCHANGED <<m_bin_counts, m_pcf_array, reducesSinceAcc, reducesSinceDirty>>
    /\ UNCHANGED m_reduce
    /\ ret' = [thing |-> thing_to_return,
               val |-> IF thing_to_return = "m_pcf_array"
                       THEN m_pcf_array' ELSE m_bin_counts',
               outcome |-> "returned"]

\* an accessor that tests the flag the wrong way round
reduceAndReturn_inverted(thing_to_return) ==
    /\ IF m_reduce = FALSE
       THEN reduce
       ELSE UNCHANGED <<m_bin_counts, m_pcf_array, reducesSinceAcc, reducesSinceDirty>>
    /\ m_reduce' = FALSE
    /\ ret' = [thing |-> thing_to_return,
               val |-> IF thing_to_return = "m_pcf_array"
                       THEN m_pcf_array' ELSE m_bin_counts',
               outcome |-> "returned"]

reduceAndReturn(thing_to_return) ==
    /\ IF m_reduce = TRUE
       THEN reduce
       ELSE UNCHANGED <<m_bin_counts, m_pcf_array, reducesSinceAcc, reducesSinceDirty>>
    /\ m_reduce' = FALSE
    /\ ret' = [thing |-> thing_to_return,
               val |-> IF thing_to_return = "m_pcf_array"
                       THEN m_pcf_array' ELSE m_bin_counts',
               outcome |-> "returned"]

\* what an accessor does to the instance it is called on
AccessorCall(name, thing) ==
    /\ reduceAndReturn(thing)
    /\ lastOp' = name
    /\ readsSinceAcc' = Inc(readsSinceAcc)
    /\ readsSinceDirty' = Inc(readsSinceDirty)
    /\ UNCHANGED <<m_box, m_frame_counter, m_n_points, m_n_query_points, m_r_max,
                   m_local_bin_counts, nthreads, accumulated, afterReset, serial,
                   accsSinceReset, lastQuery, mixedFrames>>

Accessor(name, thing) ==
    /\ AccessorCall(name, thing)
    /\ UNCHANGED <<stVars, extVars>>

getPCF == Accessor("getPCF", "m_pcf_array")

getBinCounts == Accessor("getBinCounts", "m_bin_counts")

\* a reset that leaves the flag clear
reset_clearsFlag ==
    /\ m_local_bin_counts' = ThreadStorageReset
    /\ m_frame_counter' = 0
    /\ m_reduce' = FALSE
    /\ lastOp' = "reset"
    /\ afterReset' = TRUE
    /\ serial' = [i \in Bins |-> 0]
    /\ readsSinceDirty' = 0
    /\ reducesSinceDirty' = 0
    /\ accsSinceReset' = 0
    /\ mixedFrames' = FALSE
    /\ UNCHANGED <<m_box, m_n_points, m_n_query_points, m_r_max, m_pcf_array,
                   m_bin_counts, nthreads, ret, accumulated, readsSinceAcc,
                   reducesSinceAcc, lastQuery>>
    /\ UNCHANGED <<stVars, extVars>>

\* a reset that puts every scalar member back to its constructor value
reset_reinitialises ==
    /\ m_local_bin_counts' = ThreadStorageReset
    /\ m_frame_counter' = 0
    /\ m_reduce' = TRUE
    /\ lastOp' = "reset"
    /\ afterReset' = TRUE
    /\ serial' = [i \in Bins |-> 0]
    /\ readsSinceDirty' = 0
    /\ reducesSinceDirty' = 0
    /\ accsSinceReset' = 0
    /\ mixedFrames' = FALSE
    /\ m_r_max' = <<0, 1>>
    /\ UNCHANGED <<m_box, m_n_points, m_n_query_points, m_pcf_array,
                   m_bin_counts, nthreads, ret, accumulated, readsSinceAcc,
                   reducesSinceAcc, lastQuery>>
    /\ UNCHANGED <<stVars, extVars>>

\* what reset() does to the instance it is called on
resetCall ==
    /\ m_local_bin_counts' = ThreadStorageReset
    /\ m_frame_counter' = 0
    /\ m_reduce' = TRUE
    /\ lastOp' = "reset"
    /\ afterReset' = TRUE
    /\ serial' = [i \in Bins |-> 0]
    /\ readsSinceDirty' = 0
    /\ reducesSinceDirty' = 0
    /\ accsSinceReset' = 0
    /\ mixedFrames' = FALSE
    /\ UNCHANGED <<m_box, m_n_points, m_n_query_points, m_r_max, m_pcf_array,
                   m_bin_counts, nthreads, ret, accumulated, readsSinceAcc,
                   reducesSinceAcc, lastQuery>>

reset ==
    /\ resetCall
    /\ UNCHANGED <<stVars, extVars>>

\* reduce() is public: a caller may run it directly, any number of times
callReduce ==
    /\ reduce
    /\ lastOp' = "reduce"
    /\ UNCHANGED <<m_box, m_frame_counter, m_n_points, m_n_query_points, m_reduce,
                   m_r_max, m_local_bin_counts, nthreads, ret, accumulated,
                   afterReset, serial, readsSinceAcc, readsSinceDirty,
                   accsSinceReset, lastQuery, mixedFrames>>
    /\ UNCHANGED <<stVars, extVars>>

\* a bond of a frame, as the loop sees it: the worker that handles it and the
\* bin the functor maps it to
BondSlots == {<<w, i>> : w \in Workers, i \in Bins}

SlotRank(c) == (c[1] - 1) * NBins + c[2]

Total(counts) == SumOver(counts, DOMAIN counts)

\* the bonds one frame can produce, the order within the frame left out: no
\* bond without a point and a query point, and at most MaxBonds bonds between
\* two resets
BondLists(query) ==
    LET room == IF query.n_points = 0 \/ query.n_query_points = 0
                THEN 0 ELSE MaxBonds - Total(serial)
    IN  UNION {{b \in [1..n -> BondSlots] :
                    \A j \in 1..(n - 1) : SlotRank(b[j]) <= SlotRank(b[j + 1])} :
               n \in 0..room}

\* locality::loopOverNeighbors with the bin-counting functor of a PMFT
\* variant: each bond adds one to a bin of the handling worker's local array
loopOverNeighbors(bonds) ==
    [w \in Workers |->
        [i \in Bins |->
            m_local_bin_counts[w][i]
                + Cardinality({j \in DOMAIN bonds : bonds[j] = <<w, i>>})]]

\* an accumulation that does not flag the instance for reduction
accumulateGeneral_noFlag(neighbor_query, bonds) ==
    /\ m_box' = neighbor_query.box
    /\ m_local_bin_counts' = loopOverNeighbors(bonds)
    /\ m_frame_counter' = m_frame_counter + 1
    /\ m_n_points' = neighbor_query.n_points
    /\ m_n_query_points' = neighbor_query.n_query_points
    /\ UNCHANGED m_reduce

\* an accumulation that keeps the box and the particle counts of the first
\* frame after a reset
accumulateGeneral_keepsFirstFrame(neighbor_query, bonds) ==
    /\ m_box' = IF m_frame_counter = 0 THEN neighbor_query.box ELSE m_box
    /\ m_local_bin_counts' = loopOverNeighbors(bonds)
    /\ m_frame_counter' = m_frame_counter + 1
    /\ m_n_points' = IF m_frame_counter = 0 THEN neighbor_query.n_points ELSE m_n_points
    /\ m_n_query_points' = IF m_frame_counter = 0
                           THEN neighbor_query.n_query_points ELSE m_n_query_points
    /\ m_reduce' = TRUE

\* an accumulation that counts a frame only when it has bonds
accumulateGeneral_skipsEmptyFrames(neighbor_query, bonds) ==
    /\ m_box' = neighbor_query.box
    /\ m_local_bin_counts' = loopOverNeighbors(bonds)
    /\ m_frame_counter' = IF bonds = <<>> THEN m_frame_counter ELSE m_frame_counter + 1
    /\ m_n_points' = neighbor_query.n_points
    /\ m_n_query_points' = neighbor_query.n_query_points
    /\ m_reduce' = TRUE

accumulateGeneral(neighbor_query, bonds) ==
    /\ m_box' = neighbor_query.box
    /\ m_local_bin_counts' = loopOverNeighbors(bonds)
    /\ m_frame_counter' = m_frame_counter + 1
    /\ m_n_points' = neighbor_query.n_points
    /\ m_n_query_points' = neighbor_query.n_query_points
    /\ m_reduce' = TRUE

\* what a variant's accumulate does to the instance it is called on
accumulateCall ==
    /\ m_frame_counter < MaxFrames
    /\ \E query \in NeighborQueries :
        \E bonds \in BondLists(query) :
            /\ accumulateGeneral(query, bonds)
            /\ lastQuery' = query
            /\ mixedFrames' = (mixedFrames \/ (accsSinceReset >= 1 /\ query # lastQuery))
            /\ serial' = [i \in Bins |->
                            serial[i] + Cardinality({j \in DOMAIN bonds : bonds[j][2] = i})]
    /\ lastOp' = "accumulate"
    /\ accumulated' = TRUE
    /\ afterReset' = FALSE
    /\ accsSinceReset' = accsSinceReset + 1
    /\ readsSinceAcc' = 0
    /\ reducesSinceAcc' = 0
    /\ readsSinceDirty' = 0
    /\ reducesSinceDirty' = 0
    /\ UNCHANGED <<m_r_max, m_pcf_array, m_bin_counts, nthreads, ret>>

accumulate ==
    /\ accumulateCall
    /\ UNCHANGED <<stVars, extVars>>

\* an accumulation that sets the flag before it loops over the bonds
accumulateGeneralThrows_flagFirst(neighbor_query, bonds) ==
    /\ m_box' = neighbor_query.box
    /\ m_local_bin_counts' = loopOverNeighbors(bonds)
    /\ m_reduce' = TRUE
    /\ UNCHANGED <<m_frame_counter, m_n_points, m_n_query_points>>

\* accumulateGeneral when loopOverNeighbors throws after it has handled the
\* bonds given: the box is already stored, the statements after the loop are
\* not reached
accumulateGeneralThrows(neighbor_query, bonds) ==
    /\ m_box' = neighbor_query.box
    /\ m_local_bin_counts' = loopOverNeighbors(bonds)
    /\ UNCHANGED <<m_frame_counter, m_n_points, m_n_query_points, m_reduce>>

\* an accumulate call that ends with the exception of the neighbor source
accumulateFails ==
    /\ \E query \in NeighborQueries :
        \E bonds \in BondLists(query) :
            /\ accumulateGeneralThrows(query, bonds)
            /\ serial' = [i \in Bins |->
                            serial[i] + Cardinality({j \in DOMAIN bonds : bonds[j][2] = i})]
    /\ lastOp' = "accumulate threw"
    /\ ret' = [thing |-> "none", val |-> EmptyArray, outcome |-> "exception"]
    /\ UNCHANGED <<m_r_max, m_pcf_array, m_bin_counts, nthreads, accumulated,
                   afterReset, readsSinceAcc, reducesSinceAcc, readsSinceDirty,
                   reducesSinceDirty, accsSinceReset, lastQuery, mixedFrames>>
    /\ UNCHANGED <<stVars, extVars>>

\* the member initialisers of PMFT::PMFT() and the sizing of the thread-local
\* arrays by the concrete variant, which also owns the value of m_r_max
Constructed(r_max) ==
    /\ m_box = <<0, 1>>
    /\ m_frame_counter = 0
    /\ m_n_points = 0
    /\ m_n_query_points = 0
    /\ m_reduce = TRUE
    /\ m_r_max = r_max
    /\ m_pcf_array = EmptyArray
    /\ m_bin_counts = EmptyArray
    /\ nthreads \in 1..MaxWorkers
    /\ m_local_bin_counts = [w \in 1..nthreads |-> [i \in Bins |-> 0]]
    /\ ret = [thing |-> "none", val |-> EmptyArray, outcome |-> "none"]
    /\ lastOp = "PMFT"
    /\ accumulated = FALSE
    /\ afterReset = FALSE
    /\ serial = [i \in Bins |-> 0]
    /\ readsSinceAcc = 0
    /\ reducesSinceAcc = 0
    /\ readsSinceDirty = 0
    /\ reducesSinceDirty = 0
    /\ accsSinceReset = 0
    /\ lastQuery = [box |-> <<0, 1>>, n_points |-> 0, n_query_points |-> 0]
    /\ mixedFrames = FALSE

\* PMFT::PMFT(): m_r_max(0)
InitPMFT == Constructed(<<0, 1>>)

\* the cutoffs the constructor of a concrete variant stores in m_r_max
RMaxValues == {<<1, 1>>, <<2, 1>>}

\* a concrete variant after its constructor
InitVariant == \E r_max \in RMaxValues : Constructed(r_max)

(***************************************************************************)
(* Steinhardt                                                              *)
(***************************************************************************)
\* the null std::shared_ptr
NullPtr == [array |-> "null", Np |-> 0]

NoInstance ==
    [exists |-> FALSE, m_Np |-> 0, m_r_max |-> <<0, 1>>, m_l |-> 0,
     m_r_min |-> <<0, 1>>, m_average |-> FALSE, m_Wl |-> FALSE,
     m_weighted |-> FALSE, m_Qli |-> NullPtr, m_QliAve |-> NullPtr,
     m_Wli |-> NullPtr]

InitSteinhardt ==
    /\ steinhardt = NoInstance
    /\ st_args = [r_max |-> <<0, 1>>, l |-> 0, r_min |-> <<0, 1>>]
    /\ st_err = "none"
    /\ st_ret = NullPtr
    /\ st_lastOp = "none"

\* the float arguments tried on the constructor
FloatArgs == {<<-1, 1>>, <<0, 1>>, <<1, 1>>, <<2, 1>>, NaN, PInf}

\* the particle counts of the systems handed to compute
ComputeSizes == {1, 2}

\* the error checking of the constructor: TRUE when it throws
\* std::invalid_argument
ConstructorThrows(r_max, l, r_min) ==
    IF FLt(r_max, <<0, 1>>) \/ FLt(r_min, <<0, 1>>) THEN TRUE
    ELSE IF FGe(r_min, r_max) THEN TRUE
    ELSE IF l < 2 THEN TRUE
    ELSE FALSE

Steinhardt(r_max, l, r_min, average, Wl, weighted) ==
    /\ st_args' = [r_max |-> r_max, l |-> l, r_min |-> r_min]
    /\ IF ConstructorThrows(r_max, l, r_min)
       THEN /\ steinhardt' = NoInstance
            /\ st_err' = "invalid_argument"
       ELSE /\ steinhardt' = [NoInstance EXCEPT !.exists = TRUE,
                                                !.m_r_max = r_max,
                                                !.m_l = l,
                                                !.m_r_min = r_min,
                                                !.m_average = average,
                                                !.m_Wl = Wl,
                                                !.m_weighted = weighted]
            /\ st_err' = "none"
    /\ st_ret' = NullPtr
    /\ st_lastOp' = "Steinhardt"
    /\ UNCHANGED <<pmftVars, extVars>>

\* one instance at a time: a constructor call that threw left no instance
Construct ==
    /\ ~steinhardt.exists
    /\ \E r_max \in FloatArgs, r_min \in FloatArgs, l \in 0..MaxL,
          average \in BOOLEAN, Wl \in BOOLEAN, weighted \in BOOLEAN :
        Steinhardt(r_max, l, r_min, average, Wl, weighted)

\* ~Steinhardt()
Destroy ==
    /\ steinhardt.exists
    /\ steinhardt' = NoInstance
    /\ st_ret' = NullPtr
    /\ st_err' = "none"
    /\ st_lastOp' = "~Steinhardt"
    /\ UNCHANGED st_args
    /\ UNCHANGED <<pmftVars, extVars>>

\* compute(): the arrays of the modes that are switched on are filled for the
\* Np particles of the system
compute ==
    /\ steinhardt.exists
    /\ \E Np \in ComputeSizes :
        steinhardt' =
            [steinhardt EXCEPT
                !.m_Np = Np,
                !.m_Qli = [array |-> "Qli", Np |-> Np],
                !.m_QliAve = IF steinhardt.m_average
                             THEN [array |-> "QliAve", Np |-> Np] ELSE @,
                !.m_Wli = IF steinhardt.m_Wl
                          THEN [array |-> "Wli", Np |-> Np] ELSE @]
    /\ st_err' = "none"
    /\ st_lastOp' = "compute"
    /\ UNCHANGED <<st_args, st_ret>>
    /\ UNCHANGED <<pmftVars, extVars>>

\* a selection that looks at the average flag first
getOrderResult_averageFirst ==
    IF steinhardt.m_average
    THEN steinhardt.m_QliAve
    ELSE IF steinhardt.m_Wl
         THEN steinhardt.m_Wli
         ELSE steinhardt.m_Qli

getOrderResult ==
    IF steinhardt.m_Wl
    THEN steinhardt.m_Wli
    ELSE IF steinhardt.m_average
         THEN steinhardt.m_QliAve
         ELSE steinhardt.m_Qli

getOrder ==
    /\ steinhardt.exists
    /\ st_ret' = getOrderResult
    /\ st_err' = "none"
    /\ st_lastOp' = "getOrder"
    /\ UNCHANGED <<steinhardt, st_args>>
    /\ UNCHANGED <<pmftVars, extVars>>

\* a getQl that selects as getOrder does
getQlResult_thirdOrderFirst ==
    IF steinhardt.m_Wl
    THEN steinhardt.m_Wli
    ELSE IF steinhardt.m_average
         THEN steinhardt.m_QliAve
         ELSE steinhardt.m_Qli

getQlResult ==
    IF steinhardt.m_average
    THEN steinhardt.m_QliAve
    ELSE steinhardt.m_Qli

getQl ==
    /\ steinhardt.exists
    /\ st_ret' = getQlResult
    /\ st_err' = "none"
    /\ st_lastOp' = "getQl"
    /\ UNCHANGED <<steinhardt, st_args>>
    /\ UNCHANGED <<pmftVars, extVars>>

(***************************************************************************)
(* The parallel phases of PMFT, one worker step at a time.  A location is  *)
(* <<array, worker, index>> (worker 0 for the arrays of the instance); an  *)
(* access is <<location, worker that made it>>.                            *)
(***************************************************************************)
NoQuery == [box |-> <<0, 1>>, n_points |-> 0, n_query_points |-> 0]

ParIdle ==
    [phase |-> "idle",
     pending |-> [c \in BondSlots |-> 0],   \* bonds of the frame still to handle
     query |-> NoQuery,                     \* the frame being accumulated
     todo |-> {},                           \* indices of the running parallel_for
     thing |-> "none",                      \* the array the accessor returns
     writes |-> {},                         \* writes of the running phase
     reads |-> {}]                          \* reads of the running phase

\* the members of the current instance (PMFT.h:185-194) and its history; the
\* TBB pool, nthreads, belongs to the process
Instance ==
    [m_box |-> m_box, m_frame_counter |-> m_frame_counter, m_n_points |-> m_n_points,
     m_n_query_points |-> m_n_query_points, m_reduce |-> m_reduce, m_r_max |-> m_r_max,
     m_pcf_array |-> m_pcf_array, m_bin_counts |-> m_bin_counts,
     m_local_bin_counts |-> m_local_bin_counts, ret |-> ret, lastOp |-> lastOp,
     accumulated |-> accumulated, afterReset |-> afterReset, serial |-> serial,
     readsSinceAcc |-> readsSinceAcc, reducesSinceAcc |-> reducesSinceAcc,
     readsSinceDirty |-> readsSinceDirty, reducesSinceDirty |-> reducesSinceDirty,
     accsSinceReset |-> accsSinceReset, lastQuery |-> lastQuery,
     mixedFrames |-> mixedFrames]

\* both instances are freshly constructed
InitExt ==
    /\ par = ParIdle
    /\ current = "A"
    /\ other = Instance
    /\ calls = 0

\* the history of whole calls, which the steps of a worker leave alone
callHistory ==
    <<lastOp, accumulated, afterReset, readsSinceAcc, reducesSinceAcc,
      readsSinceDirty, reducesSinceDirty, accsSinceReset, lastQuery, mixedFrames>>

\* accumulateGeneral, line 84, and the start of loopOverNeighbors
ParAccumulateBegin ==
    /\ par.phase = "idle"
    /\ m_frame_counter < MaxFrames
    /\ \E query \in NeighborQueries :
        \E bonds \in BondLists(query) :
            /\ m_box' = query.box
            /\ par' = [ParIdle EXCEPT
                         !.phase = "accumulate",
                         !.query = query,
                         !.pending = [c \in BondSlots |->
                                        Cardinality({j \in DOMAIN bonds : bonds[j] = c})]]
    /\ ret' = [thing |-> "none", val |-> EmptyArray, outcome |-> "none"]
    /\ UNCHANGED <<m_frame_counter, m_n_points, m_n_query_points, m_reduce, m_r_max,
                   m_pcf_array, m_bin_counts, m_local_bin_counts, nthreads, serial>>
    /\ UNCHANGED <<callHistory, stVars, twoVars>>

\* worker w handles one of its bonds: the functor adds one to bin i of the
\* thread-local array of the calling worker
ParBond(w, i) ==
    /\ par.phase = "accumulate"
    /\ par.pending[<<w, i>>] > 0
    /\ m_local_bin_counts' = [m_local_bin_counts EXCEPT ![w][i] = @ + 1]
    /\ serial' = [serial EXCEPT ![i] = @ + 1]
    /\ par' = [par EXCEPT !.pending[<<w, i>>] = @ - 1,
                          !.writes = @ \cup {<<<<"m_local_bin_counts", w, i>>, w>>}]
    /\ UNCHANGED <<m_box, m_frame_counter, m_n_points, m_n_query_points, m_reduce,
                   m_r_max, m_pcf_array, m_bin_counts, nthreads, ret>>
    /\ UNCHANGED <<callHistory, stVars, twoVars>>

\* loopOverNeighbors has returned: accumulateGeneral, lines 86-90
ParAccumulateEnd ==
    /\ par.phase = "accumulate"
    /\ \A c \in BondSlots : par.pending[c] = 0
    /\ m_frame_counter' = m_frame_counter + 1
    /\ m_n_points' = par.query.n_points
    /\ m_n_query_points' = par.query.n_query_points
    /\ m_reduce' = TRUE
    /\ par' = ParIdle
    /\ UNCHANGED <<m_box, m_r_max, m_pcf_array, m_bin_counts, m_local_bin_counts,
                   nthreads, ret, serial>>
    /\ UNCHANGED <<callHistory, stVars, twoVars>>

\* an accessor finds the flag set: reduce3D prepares both arrays (lines
\* 126-127) and starts the first parallel_for over the indices
ParReduceBegin(thing) ==
    /\ par.phase = "idle"
    /\ m_reduce = TRUE
    /\ m_bin_counts' = prepare(NBins)
    /\ m_pcf_array' = [i \in Bins |-> <<0, 1>>]
    /\ par' = [ParIdle EXCEPT !.phase = "fold", !.todo = Bins, !.thing = thing]
    /\ ret' = [thing |-> "none", val |-> EmptyArray, outcome |-> "none"]
    /\ UNCHANGED <<m_box, m_frame_counter, m_n_points, m_n_query_points, m_reduce,
                   m_r_max, m_local_bin_counts, nthreads, serial>>
    /\ UNCHANGED <<callHistory, stVars, twoVars>>

\* a worker that runs the loop body for every index, not only for the index
\* of its own range
ParFold_wholeRange(w, i) ==
    /\ par.phase = "fold"
    /\ i \in par.todo
    /\ m_bin_counts' = FoldLocalBins(m_bin_counts, NBins)
    /\ par' = [par EXCEPT
                 !.todo = @ \ {i},
                 !.writes = @ \cup {<<<<"m_bin_counts", 0, k>>, w>> : k \in Bins},
                 !.reads = @ \cup {<<<<"m_local_bin_counts", v, k>>, w>> :
                                      v \in Workers, k \in Bins}]
    /\ UNCHANGED <<m_box, m_frame_counter, m_n_points, m_n_query_points, m_reduce,
                   m_r_max, m_pcf_array, m_local_bin_counts, nthreads, ret, serial>>
    /\ UNCHANGED <<callHistory, stVars, twoVars>>

\* first parallel_for of reduce3D, index i in the range handed to worker w
\* (lines 130-138): every thread-local array is read at i, m_bin_counts[i] is
\* written
ParFold(w, i) ==
    /\ par.phase = "fold"
    /\ i \in par.todo
    /\ m_bin_counts' = [m_bin_counts EXCEPT ![i] = FoldLocalBins(m_bin_counts, NBins)[i]]
    /\ par' = [par EXCEPT
                 !.todo = @ \ {i},
                 !.writes = @ \cup {<<<<"m_bin_counts", 0, i>>, w>>},
                 !.reads = @ \cup {<<<<"m_local_bin_counts", v, i>>, w>> : v \in Workers}]
    /\ UNCHANGED <<m_box, m_frame_counter, m_n_points, m_n_query_points, m_reduce,
                   m_r_max, m_pcf_array, m_local_bin_counts, nthreads, ret, serial>>
    /\ UNCHANGED <<callHistory, stVars, twoVars>>

\* the first parallel_for has returned (lines 139-141); the second one starts
ParNormalizeBegin ==
    /\ par.phase = "fold"
    /\ par.todo = {}
    /\ par' = [par EXCEPT !.phase = "normalize", !.todo = Bins,
                          !.writes = {}, !.reads = {}]
    /\ UNCHANGED <<pmftVars, stVars, twoVars>>

\* second parallel_for of reduce3D, index i in the range handed to worker w
\* (lines 146-150)
ParNormalize(w, i) ==
    /\ par.phase = "normalize"
    /\ i \in par.todo
    /\ m_pcf_array' = [m_pcf_array EXCEPT ![i] = NormalizePCF(m_bin_counts, NBins)[i]]
    /\ par' = [par EXCEPT
                 !.todo = @ \ {i},
                 !.writes = @ \cup {<<<<"m_pcf_array", 0, i>>, w>>},
                 !.reads = @ \cup {<<<<"m_bin_counts", 0, i>>, w>>}]
    /\ UNCHANGED <<m_box, m_frame_counter, m_n_points, m_n_query_points, m_reduce,
                   m_r_max, m_bin_counts, m_local_bin_counts, nthreads, ret, serial>>
    /\ UNCHANGED <<callHistory, stVars, twoVars>>

\* reduce3D has returned: reduceAndReturn, lines 174-175
ParReduceEnd ==
    /\ par.phase = "normalize"
    /\ par.todo = {}
    /\ m_reduce' = FALSE
    /\ ret' = [thing |-> par.thing,
               val |-> IF par.thing = "m_pcf_array" THEN m_pcf_array ELSE m_bin_counts,
               outcome |-> "returned"]
    /\ par' = ParIdle
    /\ UNCHANGED <<m_box, m_frame_counter, m_n_points, m_n_query_points, m_r_max,
                   m_pcf_array, m_bin_counts, m_local_bin_counts, nthreads, serial>>
    /\ UNCHANGED <<callHistory, stVars, twoVars>>

(***************************************************************************)
(* Two PMFT instances, A and B, in one process.  The caller's next call    *)
(* goes to the other instance: its members come into the member variables  *)
(* and those of the instance left behind are kept in other.                *)
(***************************************************************************)
Switch ==
    /\ current' = IF current = "A" THEN "B" ELSE "A"
    /\ other' = Instance
    /\ m_box' = other.m_box
    /\ m_frame_counter' = other.m_frame_counter
    /\ m_n_points' = other.m_n_points
    /\ m_n_query_points' = other.m_n_query_points
    /\ m_reduce' = other.m_reduce
    /\ m_r_max' = other.m_r_max
    /\ m_pcf_array' = other.m_pcf_array
    /\ m_bin_counts' = other.m_bin_counts
    /\ m_local_bin_counts' = other.m_local_bin_counts
    /\ ret' = other.ret
    /\ lastOp' = other.lastOp
    /\ accumulated' = other.accumulated
    /\ afterReset' = other.afterReset
    /\ serial' = other.serial
    /\ readsSinceAcc' = other.readsSinceAcc
    /\ reducesSinceAcc' = other.reducesSinceAcc
    /\ readsSinceDirty' = other.readsSinceDirty
    /\ reducesSinceDirty' = other.reducesSinceDirty
    /\ accsSinceReset' = other.accsSinceReset
    /\ lastQuery' = other.lastQuery
    /\ mixedFrames' = other.mixedFrames
    /\ UNCHANGED <<nthreads, par, calls, stVars>>

\* one more call by the caller, on the current instance: nothing but the
\* members of that instance is touched
TwoCalled ==
    /\ calls < MaxCalls
    /\ calls' = calls + 1
    /\ UNCHANGED <<stVars, par, current, other>>

TwoAccumulate == accumulateCall /\ TwoCalled

\* a reset over thread-local storage that all instances of the class share:
\* the buffers of the other instance are zeroed as well
TwoReset_sharedStorage ==
    /\ resetCall
    /\ calls < MaxCalls
    /\ calls' = calls + 1
    /\ other' = [other EXCEPT !.m_local_bin_counts = ThreadStorageReset]
    /\ UNCHANGED <<stVars, par, current>>

TwoReset == resetCall /\ TwoCalled

TwoAccessor(name, thing) == AccessorCall(name, thing) /\ TwoCalled

NextTwo ==
    \/ Switch
    \/ TwoAccumulate
    \/ TwoReset
    \/ TwoAccessor("getPCF", "m_pcf_array")
    \/ TwoAccessor("getBinCounts", "m_bin_counts")

\* reset() runs on the calling thread alone, between two parallel phases
ParReset == par.phase = "idle" /\ reset

NextPar ==
    \/ ParAccumulateBegin
    \/ \E w \in Workers, i \in Bins : ParBond(w, i)
    \/ ParAccumulateEnd
    \/ ParReduceBegin("m_pcf_array")
    \/ ParReduceBegin("m_bin_counts")
    \/ \E w \in Workers, i \in Bins : ParFold(w, i)
    \/ ParNormalizeBegin
    \/ \E w \in Workers, i \in Bins : ParNormalize(w, i)
    \/ ParReduceEnd
    \/ ParReset

(***************************************************************************)
(* Specifications: Spec drives one PMFT instance, SpecSteinhardt one       *)
(* Steinhardt instance.                                                    *)
(***************************************************************************)
Init == InitPMFT /\ InitSteinhardt /\ InitExt

Next == getPCF \/ getBinCounts \/ reset \/ accumulate

Spec == Init /\ [][Next]_vars

SpecPar == Init /\ [][NextPar]_vars

\* two instances, their calls made one after the other by one caller
InitTwo == Init /\ nthreads = 1

SpecTwo == InitTwo /\ [][NextTwo]_vars

\* accumulate, reset and direct calls of reduce(), without the accessors
NextReduce == accumulate \/ reset \/ callReduce

SpecReduce == Init /\ [][NextReduce]_vars

\* one instance of a concrete PMFT variant
InitOfVariant == InitVariant /\ InitSteinhardt /\ InitExt

SpecVariant == InitOfVariant /\ [][Next]_vars

\* the PMFT interface with accumulate calls that the neighbor source fails
NextFail == Next \/ accumulateFails

\* single-threaded pool: the worker that handles a bond plays no part in what
\* a failed call leaves behind
InitFail == Init /\ nthreads = 1

SpecFail == InitFail /\ [][NextFail]_vars

NextSteinhardt == Construct \/ compute \/ getOrder \/ getQl \/ Destroy

SpecSteinhardt == Init /\ [][NextSteinhardt]_vars

(***************************************************************************)
(* Properties                                                              *)
(***************************************************************************)
\* the sum over all thread-local arrays of the current count of bin i
LocalSum(i) == SumOver([w \in Workers |-> m_local_bin_counts[w][i]], Workers)

Zero == <<0, 1>>

\* C1: after an accessor call the bin-count array holds, for every bin, the
\* sum of that bin over all thread-local arrays; getBinCounts returns that
\* array and getPCF returns the array normalised from it: no accumulation made
\* before the call is missing.
C1_NoStaleOutput ==
    lastOp \in Accessors =>
        /\ m_bin_counts = [i \in Bins |-> LocalSum(i)]
        /\ m_pcf_array = NormalizePCF([i \in Bins |-> LocalSum(i)], NBins)
        /\ ret.val = IF lastOp = "getPCF" THEN m_pcf_array ELSE m_bin_counts

\* getBinCounts after a second frame, the two bonds of bin 1 in two workers
C1_Witness ==
    /\ lastOp = "getBinCounts"
    /\ m_frame_counter = 2
    /\ nthreads = 2
    /\ m_local_bin_counts[1][1] = 1
    /\ m_local_bin_counts[2][1] = 1
    /\ ret.val[1] = 2

C3_RepeatedAccessor ==
    [][(lastOp \in Accessors /\ lastOp' \in Accessors) =>
            /\ m_bin_counts' = m_bin_counts
            /\ m_pcf_array' = m_pcf_array
            /\ (lastOp' = lastOp => ret' = ret)]_vars

\* a second accessor call in a row, on counts that are not all zero
C3_Witness ==
    /\ lastOp \in Accessors
    /\ readsSinceDirty = 2
    /\ m_bin_counts[1] >= 1
    /\ m_pcf_array[1] # Zero

\* what C4 gives for bin k
C4_Expected(k) ==
    FDiv(FMul(FMul(ToFloat(m_bin_counts[k]), jf(k)),
              FDiv(m_box, ToFloat(m_n_query_points))),
         ToFloat(m_frame_counter * m_n_points))

\* C4: after a reduction with frame_count >= 1, n_points >= 1 and
\* n_query_points >= 1, pcf[k] = bin_count[k] * jf(k) * (box_volume /
\* n_query_points) / (frame_count * n_points) for every bin k.
C4_PCFFormula ==
    (/\ m_reduce = FALSE
     /\ m_frame_counter >= 1
     /\ m_n_points >= 1
     /\ m_n_query_points >= 1)
        => \A k \in Bins : m_pcf_array[k] = C4_Expected(k)

\* two frames of two points and one query point in a box of volume 8, one
\* bond in bin 2: 1 * (1/2) * (8/1) / (2*2) = 1
C4_Witness ==
    /\ m_reduce = FALSE
    /\ m_frame_counter = 2
    /\ m_n_points = 2
    /\ m_n_query_points = 1
    /\ m_bin_counts[2] = 1
    /\ m_pcf_array[2] = <<1, 1>>

\* C5: an accessor call after reset(), with no accumulate in between, finds
\* both output arrays all zero, the frame counter zero and the number of
\* points zero.
C5_ResetReadsZero ==
    (afterReset /\ lastOp \in Accessors) =>
        /\ \A k \in Bins : m_bin_counts[k] = 0 /\ m_pcf_array[k] = Zero
        /\ m_frame_counter = 0
        /\ m_n_points = 0

\* a <= b of C++
FLe(a, b) == FGe(b, a)

C6_Valid(r_max, l, r_min) ==
    /\ FLe(Zero, r_min)
    /\ FLt(r_min, r_max)
    /\ l >= 2

\* C6: the constructor throws whenever r_max < 0, r_min < 0, r_min >= r_max
\* or l < 2, and succeeds whenever 0 <= r_min < r_max and l >= 2; every
\* instance that exists has 0 <= r_min < r_max and l >= 2.
C6_ConfigurationChecked ==
    /\ st_lastOp = "Steinhardt" =>
        /\ (\/ FLt(st_args.r_max, Zero)
            \/ FLt(st_args.r_min, Zero)
            \/ FGe(st_args.r_min, st_args.r_max)
            \/ st_args.l < 2)
                => (~steinhardt.exists /\ st_err = "invalid_argument")
        /\ C6_Valid(st_args.r_max, st_args.l, st_args.r_min)
                => (steinhardt.exists /\ st_err = "none")
    /\ steinhardt.exists =>
        C6_Valid(steinhardt.m_r_max, steinhardt.m_l, steinhardt.m_r_min)

\* C7: getOrder() returns the Wl array if the Wl flag is set, whatever the
\* average flag; otherwise the averaged Ql array if the average flag is set;
\* otherwise the base Ql array.
C7_OutputSelection ==
    st_lastOp = "getOrder" =>
        /\ steinhardt.m_Wl => st_ret = steinhardt.m_Wli
        /\ (~steinhardt.m_Wl /\ steinhardt.m_average) => st_ret = steinhardt.m_QliAve
        /\ (~steinhardt.m_Wl /\ ~steinhardt.m_average) => st_ret = steinhardt.m_Qli

\* getOrder() after compute() with both flags set returns the Wl array
C7_Witness ==
    /\ st_lastOp = "getOrder"
    /\ steinhardt.m_Wl
    /\ steinhardt.m_average
    /\ steinhardt.m_QliAve.array = "QliAve"
    /\ st_ret.array = "Wli"

\* C8: an accessor call on an instance on which no accumulate has run fails
\* as a contract violation instead of returning an array.
C8_FreshReadFails ==
    (~accumulated /\ lastOp \in Accessors) => ret.outcome = "ContractViolation"

\* C10: after a reduction every bin of the bin-count array holds the number
\* of bonds mapped to that bin since the last reset, for every number of
\* workers and every assignment of the bonds to the workers.
C10_ReducedEqualsSerial ==
    m_reduce = FALSE => \A k \in Bins : m_bin_counts[k] = serial[k]

\* two bonds of bin 1 handled by two different workers, then reduced
C10_Witness ==
    /\ m_reduce = FALSE
    /\ nthreads = 2
    /\ m_local_bin_counts[1][1] = 1
    /\ m_local_bin_counts[2][1] = 1
    /\ serial[1] = 2
    /\ m_bin_counts[1] = 2

\* C11: a reduce() call that directly follows a reduce() call, with no
\* accumulate or reset in between, leaves the bin-count array and the PCF array
\* as the first call left them.
C11_ReduceIdempotent ==
    [][(lastOp = "reduce" /\ lastOp' = "reduce") =>
            /\ m_bin_counts' = m_bin_counts
            /\ m_pcf_array' = m_pcf_array]_vars

\* two reduce() calls in a row after an accumulate that counted a bond in bin 1
C11_Witness ==
    /\ lastOp = "reduce"
    /\ readsSinceDirty = 0
    /\ reducesSinceDirty = 2
    /\ m_bin_counts[1] >= 1
    /\ m_bin_counts[1] = LocalSum(1)

\* C12: after every completed accumulate call the needs-reduction flag is
\* set, and the frame counter is the number of accumulate calls completed
\* since the last reset (or construction), whatever was read in between.
C12_FrameCounter ==
    /\ m_frame_counter = accsSinceReset
    /\ lastOp = "accumulate" => (m_reduce = TRUE /\ m_frame_counter >= 1)

\* a second accumulate call, made after the first frame was read back
C12_Witness ==
    /\ lastOp = "accumulate"
    /\ accsSinceReset = 2
    /\ m_frame_counter = 2
    /\ m_reduce = TRUE
    /\ ~afterReset
    /\ ret.thing = "m_bin_counts"
    /\ Total(ret.val) = 1
    /\ Total(serial) = 2

\* the thread-local arrays are all zero
LocalBinsZero == \A w \in Workers : \A i \in Bins : m_local_bin_counts[w][i] = 0

LocalShape(local) == [w \in DOMAIN local |-> DOMAIN local[w]]

\* C14: a reset() call leaves r_max and the grid (the shape of the arrays)
\* as they were, and with them every member other than the counts, the frame
\* counter and the flag: the box and the two particle counts.
C14_ResetKeepsConfiguration ==
    [][lastOp' = "reset" =>
            /\ m_r_max' = m_r_max
            /\ LocalShape(m_local_bin_counts') = LocalShape(m_local_bin_counts)
            /\ nthreads' = nthreads
            /\ m_box' = m_box
            /\ m_n_points' = m_n_points
            /\ m_n_query_points' = m_n_query_points]_vars

\* a reset() of a variant with r_max = 2 after a frame of two points
C14_Witness ==
    /\ lastOp = "reset"
    /\ m_r_max = <<2, 1>>
    /\ m_n_points = 2
    /\ m_box = <<8, 1>>
    /\ m_frame_counter = 0
    /\ LocalShape(m_local_bin_counts) = [w \in Workers |-> Bins]

\* the PCF of bin k from the bonds of all frames since the last reset and the
\* box and particle counts of the last frame alone
C17_Expected(k) ==
    LET density == FDiv(lastQuery.box, ToFloat(lastQuery.n_query_points))
        norm == FDiv(<<1, 1>>,
                     FMul(ToFloat(accsSinceReset), ToFloat(lastQuery.n_points)))
    IN  FMul(FMul(FMul(ToFloat(serial[k]), norm), jf(k)), density)

\* C17: after a reduction the bin counts are those of all frames since the
\* last reset, and the PCF is normalised with the box, n_points and
\* n_query_points of the most recent accumulate call only.
C17_LastFrameNormalisation ==
    m_reduce = FALSE =>
        \A k \in Bins :
            /\ m_bin_counts[k] = serial[k]
            /\ m_pcf_array[k] = C17_Expected(k)

\* a frame of one point in a box of volume 1, then a frame of two points in a
\* box of volume 8; one bond in bin 1: 1 * 1/(2*2) * 1 * 8/1 = 2
C17_Witness ==
    /\ m_reduce = FALSE
    /\ mixedFrames
    /\ accsSinceReset = 2
    /\ lastQuery = [box |-> <<8, 1>>, n_points |-> 2, n_query_points |-> 1]
    /\ serial[1] = 1
    /\ m_pcf_array[1] = <<2, 1>>

\* C18: an accumulate call that ends with the exception of the neighbor
\* source hands the exception to the caller and leaves the frame counter, the
\* two particle counts, the flag and the output arrays as they were; an
\* accessor called next with the flag clear runs no reduction and returns the
\* array as reduced before, without the counts of the failed call.
C18_FailedAccumulate ==
    [][/\ lastOp' = "accumulate threw" =>
            /\ ret'.outcome = "exception"
            /\ m_frame_counter' = m_frame_counter
            /\ m_n_points' = m_n_points
            /\ m_n_query_points' = m_n_query_points
            /\ m_reduce' = m_reduce
            /\ m_bin_counts' = m_bin_counts
            /\ m_pcf_array' = m_pcf_array
       /\ (lastOp = "accumulate threw" /\ lastOp' \in Accessors
                /\ m_reduce = FALSE) =>
            /\ m_bin_counts' = m_bin_counts
            /\ m_pcf_array' = m_pcf_array
            /\ ret'.val = IF lastOp' = "getPCF" THEN m_pcf_array ELSE m_bin_counts
            /\ ret'.outcome = "returned"]_vars

\* getBinCounts after a failed accumulate that had counted a bond in bin 1:
\* the bond is in a thread-local array and not in the array returned
C18_Witness ==
    /\ lastOp = "getBinCounts"
    /\ m_reduce = FALSE
    /\ accsSinceReset = 1
    /\ readsSinceDirty = 2
    /\ ret.val[1] = 1
    /\ LocalSum(1) = 2

\* C19: getQl() returns the averaged Ql array if the average flag is set and
\* the base Ql array otherwise, whatever the Wl flag, and never the Wl array;
\* once compute() has filled the arrays, it returns the array getOrder() would
\* return exactly when the Wl flag is not set.
C19_GetQl ==
    st_lastOp = "getQl" =>
        /\ steinhardt.m_average => st_ret = steinhardt.m_QliAve
        /\ ~steinhardt.m_average => st_ret = steinhardt.m_Qli
        /\ st_ret.array # "Wli"
        /\ steinhardt.m_Np > 0 => ((st_ret = getOrderResult) <=> ~steinhardt.m_Wl)

\* getQl() after compute() with the Wl flag set: the base Ql array, while
\* getOrder() would return the Wl array
C19_Witness ==
    /\ st_lastOp = "getQl"
    /\ steinhardt.m_Wl
    /\ ~steinhardt.m_average
    /\ steinhardt.m_Np = 2
    /\ st_ret.array = "Qli"
    /\ getOrderResult.array = "Wli"

\* C15: within one parallel phase no location is written by two workers, and
\* none is written by one worker and read by another; while a frame is
\* accumulated each worker writes its own thread-local array only; during the
\* fold and the normalisation no thread-local array is written and no bond of
\* the frame is left to handle.
C15_NoSharedWrites ==
    /\ \A a \in par.writes : \A b \in par.writes \cup par.reads :
            a[1] = b[1] => a[2] = b[2]
    /\ par.phase = "accumulate" =>
            \A a \in par.writes : a[1][1] = "m_local_bin_counts" /\ a[1][2] = a[2]
    /\ par.phase \in {"fold", "normalize"} =>
            /\ \A c \in BondSlots : par.pending[c] = 0
            /\ \A a \in par.writes : a[1][1] # "m_local_bin_counts"
            /\ \A a \in par.reads : a[1][1] # IF par.phase = "fold"
                                              THEN "m_pcf_array" ELSE "m_local_bin_counts"

\* a fold whose two indices were handled by two different workers, over
\* thread-local arrays that two workers had filled
C15_Witness ==
    /\ par.phase = "fold"
    /\ par.todo = {}
    /\ nthreads = 2
    /\ \E a \in par.writes : \E b \in par.writes : a[2] # b[2]
    /\ m_local_bin_counts[1][1] = 1
    /\ m_local_bin_counts[2][1] = 1
    /\ m_bin_counts[1] = 2

=============================================================================
